---------------------------- MODULE Spec2Model ----------------------------
(***************************************************************************)
(* The two set-similarity scorers of the repository:                       *)
(*   TagsJaccardSimilarityMetric   (src/src/tags_jaccard.py)               *)
(*   ReferencesJaccardMetric       (src/src/references_jaccard.py)         *)
(* A scorer instance is configured once and then called any number of      *)
(* times; each call reads two attributes of a sample and returns a float   *)
(* (or lets an exception escape).  And truncate_context (src/src/utils.py),*)
(* which bounds the context given to the LLM-judged metrics.               *)
(*                                                                         *)
(* Specifications:                                                         *)
(*   Spec            calls of either scorer, one at a time                 *)
(*   SpecFactory     the instance create_tags_jaccard_metric builds        *)
(*   SpecTruncate    calls of truncate_context                             *)
(*   SpecConcurrent  calls of several tasks on one shared instance         *)
(*   SpecDriver      the row loop of evaluate_dataset (src/run_evals.py)   *)
(*   SpecLLM         calls of the two LLM-judged metrics                   *)
(*                                                                         *)
(* Texts are sequences of one-character strings.  Scores are exact         *)
(* fractions <<numerator, denominator>> in lowest terms: every float the   *)
(* scorers return is k/n or (k/n + l/m)/2 for small integers.              *)
(***************************************************************************)
EXTENDS Integers, Sequences, FiniteSets, TLC

VARIABLES
    scorer,     \* which metric class the instance is: "tags", "references",
                \* "conciseness" or "coherence"
    config,     \* the dataclass fields of the instance
    sample,     \* the two attributes the last call read: generated, truth
    outcome,    \* what the last call did: the float returned or the exception
    calls,      \* the parsers the last call invoked, in order; for an
                \* LLM-judged metric, its calls of generate
    raw_context, \* the text argument of the last call of truncate_context
    max_tokens,  \* the max_tokens argument of that call
    context,     \* what that call returned or raised
    tasks,       \* concurrent calls on one instance: each task's position,
                 \* sample and result
    locals,      \* concurrent calls: the local variables of each call frame
    df,          \* evaluation driver: the publication_external_id column of
                 \* the dataset
    index,       \* driver: the number of the row under evaluation, from 1
    row,         \* driver: that row's cells
    row_result,  \* driver: the result dict the loop body is bound to
    results,     \* driver: the list the loop appends to
    error,       \* driver: the exception raised while evaluating the row
    complete_results, \* driver: the rows of the merged table
    pc          \* "idle": no call made on the sample yet; "done": call ended

truncVars == <<raw_context, max_tokens, context>>

taskVars == <<tasks, locals>>

driverVars ==
    <<df, index, row, row_result, results, error, complete_results>>

vars ==
    <<scorer, config, sample, outcome, calls, truncVars, taskVars,
      driverVars, pc>>

----------------------------------------------------------------------------
(* Bounds of the model *)

\* longest delimited text given to the tags scorer
MaxLen == 3
\* longest list of reference entries given to the references scorer
MaxRefs == 2
\* longest list of reference entries a serialized attribute holds
MaxParsedRefs == 1
\* longest text given to truncate_context
MaxText == 21
\* most periods in a text given to truncate_context
MaxPeriods == 2
\* largest max_tokens given to truncate_context
MaxTokens == 5
\* number of tasks that call one scorer instance concurrently
NumTasks == 2

----------------------------------------------------------------------------
(* Characters and strings *)

\* two letters that differ in case only, a blank and the delimiter
Chars == {"a", "A", " ", ","}

Whitespace == {" "}

\* str.lower() on one character
LowerChar(c) == IF c = "A" THEN "a" ELSE c

\* str.lower()
lower(s) == [i \in DOMAIN s |-> LowerChar(s[i])]

RECURSIVE lstrip(_)
lstrip(s) ==
    IF s # <<>> /\ Head(s) \in Whitespace THEN lstrip(Tail(s)) ELSE s

RECURSIVE rstrip(_)
rstrip(s) ==
    IF s # <<>> /\ s[Len(s)] \in Whitespace
    THEN rstrip(SubSeq(s, 1, Len(s) - 1))
    ELSE s

\* str.strip()
strip(s) == rstrip(lstrip(s))

StartsWith(s, sep, i) ==
    /\ i + Len(sep) - 1 <= Len(s)
    /\ SubSeq(s, i, i + Len(sep) - 1) = sep

\* str.split(sep) for a non-empty sep: the pieces between the occurrences of
\* sep, scanned left to right; cur is the piece being collected
RECURSIVE SplitFrom(_, _, _, _)
SplitFrom(s, sep, i, cur) ==
    IF i > Len(s) THEN <<cur>>
    ELSE IF StartsWith(s, sep, i)
         THEN <<cur>> \o SplitFrom(s, sep, i + Len(sep), <<>>)
         ELSE SplitFrom(s, sep, i + 1, Append(cur, s[i]))

\* set(list)
ToSet(seq) == {seq[i] : i \in DOMAIN seq}

\* all texts of at most n characters
TextsUpTo(n) == UNION {[1..k -> Chars] : k \in 0..n}

----------------------------------------------------------------------------
(* Results of a step that may raise *)

Ok(v) == [exc |-> "none", val |-> v]

Raise(e) == [exc |-> e, val |-> <<>>]

\* the exceptions `except Exception` catches; SystemExit and
\* KeyboardInterrupt derive from BaseException only
IsException(e) ==
    e \in {"ValueError", "AttributeError", "TypeError", "SyntaxError",
           "NameError", "JSONDecodeError", "RecursionError"}

----------------------------------------------------------------------------
(* Scores *)

RECURSIVE GCD(_, _)
GCD(a, b) == IF b = 0 THEN a ELSE GCD(b, a % b)

\* n/d in lowest terms, d > 0
Frac(n, d) == LET g == GCD(n, d) IN <<n \div g, d \div g>>

Zero == Frac(0, 1)

One == Frac(1, 1)

\* the mean with the division by two forgotten
Mean_sum(p, q) == Frac(p[1] * q[2] + q[1] * p[2], p[2] * q[2])

\* (p + q) / 2.0
Mean(p, q) == Frac(p[1] * q[2] + q[1] * p[2], 2 * p[2] * q[2])

LessEq(p, q) == p[1] * q[2] <= q[1] * p[2]

----------------------------------------------------------------------------
(* What one call of _single_turn_ascore does *)

Returned(score) == [raised |-> "none", score |-> score]

Escaped(e) == [raised |-> e, score |-> Zero]

NoCall == [raised |-> "nocall", score |-> Zero]

\* a try block's `except Exception: return 0.0` applied to a raised e
ExceptReturnZero(e) == IF IsException(e) THEN Returned(Zero) ELSE Escaped(e)

----------------------------------------------------------------------------
(* sklearn, as both scorers call it *)

\* MultiLabelBinarizer(classes=all_labels) applied to the one sample [y]:
\* the row of the indicator matrix, as the set of classes marked 1
MultiLabelBinarizer(classes, y) == ToSet(y) \cap classes

\* precision, tp / (tp + fp), in place of the Jaccard index
jaccard_score_precision(n_classes, true_row, pred_row) ==
    IF n_classes < 2 THEN Raise("ValueError")
    ELSE LET tp == Cardinality(true_row \cap pred_row)
             fp == Cardinality(pred_row \ true_row)
         IN  IF tp + fp = 0 THEN Ok(Zero)
             ELSE Ok(Frac(tp, tp + fp))

\* jaccard_score(y_true_binary, y_pred_binary, average='samples',
\* zero_division=0.0) on two 1 x n indicator rows, n the number of classes.
\* An array of shape (1, 1) is a "binary" target, not a multilabel one
\* (sklearn's is_multilabel requires shape[1] > 1), and average='samples' on
\* a binary target raises ValueError("Samplewise metrics are not available
\* outside of multilabel classification.").  With n >= 2 the one sample's
\* score is tp / (tp + fp + fn), and zero_division when that sum is 0.
jaccard_score(n_classes, true_row, pred_row) ==
    IF n_classes < 2 THEN Raise("ValueError")
    ELSE LET tp == Cardinality(true_row \cap pred_row)
             fp == Cardinality(pred_row \ true_row)
             fn == Cardinality(true_row \ pred_row)
         IN  IF tp + fp + fn = 0 THEN Ok(Zero)
             ELSE Ok(Frac(tp, tp + fp + fn))

----------------------------------------------------------------------------
(* TagsJaccardSimilarityMetric *)

Str(chars) == [kind |-> "str", chars |-> chars]

\* the attribute is absent, None or another falsy value
Missing == [kind |-> "missing", chars |-> <<>>]

\* a truthy value that is no string (a number, a list)
NonString == [kind |-> "other", chars |-> <<>>]

\* getattr(sample, column, '') or ""
OrEmpty(v) == IF v.kind = "missing" THEN Str(<<>>) ELSE v

\* the body of the loop of _preprocess_text for one item
NormalizeItem(cfg, item) ==
    LET stripped == IF cfg.strip_whitespace THEN strip(item) ELSE item
    IN  IF ~cfg.case_sensitive THEN lower(stripped) ELSE stripped

Tags_preprocess_text(cfg, text) ==
    IF text.kind # "str" THEN Raise("AttributeError")
    ELSE IF text.chars = <<>> \/ strip(text.chars) = <<>> THEN Ok(<<>>)
    ELSE IF cfg.delimiter = <<>> THEN Raise("ValueError")
    ELSE LET items == SplitFrom(text.chars, cfg.delimiter, 1, <<>>)
             normalized == [i \in DOMAIN items |-> NormalizeItem(cfg, items[i])]
         IN  Ok(SelectSeq(normalized, LAMBDA item : item # <<>>))

\* the tags scorer with the references scorer's policy for two empty lists
Tags_calculate_both_empty_zero(y_true, y_pred) ==
    IF y_true = <<>> /\ y_pred = <<>> THEN Zero
    ELSE IF y_true = <<>> \/ y_pred = <<>> THEN Zero
    ELSE LET all_labels == ToSet(y_true \o y_pred)
             score == jaccard_score(Cardinality(all_labels),
                          MultiLabelBinarizer(all_labels, y_true),
                          MultiLabelBinarizer(all_labels, y_pred))
         IN  IF score.exc = "none" THEN score.val ELSE Zero

Tags_calculate_sklearn_jaccard(y_true, y_pred) ==
    IF y_true = <<>> /\ y_pred = <<>> THEN One
    ELSE IF y_true = <<>> \/ y_pred = <<>> THEN Zero
    ELSE LET all_labels == ToSet(y_true \o y_pred)
         IN  IF all_labels = {} THEN One
             ELSE LET score == jaccard_score(Cardinality(all_labels),
                                   MultiLabelBinarizer(all_labels, y_true),
                                   MultiLabelBinarizer(all_labels, y_pred))
                  IN  IF score.exc = "none" THEN score.val ELSE Zero

Tags_single_turn_ascore(cfg, smp) ==
    LET generated_text == OrEmpty(smp.generated)
        truth_text == OrEmpty(smp.truth)
        generated_list == Tags_preprocess_text(cfg, generated_text)
        truth_list == Tags_preprocess_text(cfg, truth_text)
    IN  IF generated_list.exc # "none" THEN ExceptReturnZero(generated_list.exc)
        ELSE IF truth_list.exc # "none" THEN ExceptReturnZero(truth_list.exc)
        ELSE Returned(Tags_calculate_sklearn_jaccard(truth_list.val,
                                                     generated_list.val))

\* the configurations of a tags scorer: the default delimiter, and the empty
\* string, which str.split rejects
TagsConfigs ==
    [delimiter : {<<",">>, <<>>},
     case_sensitive : BOOLEAN,
     strip_whitespace : BOOLEAN]

TagsValues == {Missing, NonString} \cup {Str(t) : t \in TextsUpTo(MaxLen)}

TagsSamples == [generated : TagsValues, truth : TagsValues]

----------------------------------------------------------------------------
(* ReferencesJaccardMetric *)

\* the value of a record's 'url' or 'title' key
Absent == [kind |-> "absent", chars |-> <<>>]

\* a value that is no string (None, a number): it has no .strip
NonStr == [kind |-> "nonstr", chars |-> <<>>]

Field(chars) == [kind |-> "str", chars |-> chars]

\* an entry of a reference list: a dict, or anything else (a string, a number)
Ref(url, title) == [kind |-> "dict", url |-> url, title |-> title]

NonDict == [kind |-> "nondict", url |-> Absent, title |-> Absent]

\* the entries the model builds reference lists from
Entries ==
    { NonDict,
      Ref(Field(<<"a">>), Field(<<"a">>)),
      Ref(Field(<<" ", "A">>), Field(<<"b">>)),
      Ref(Field(<<"b">>), Absent),
      Ref(Absent, Field(<<" ", "A">>)),
      Ref(Field(<<" ">>), Field(<<" ">>)),
      Ref(NonStr, Field(<<"a">>)),
      Ref(Field(<<"b">>), NonStr) }

RefListsUpTo(n) == UNION {[1..k -> Entries] : k \in 0..n}

\* a Python value a parser returns: a list, a value that cannot be iterated
\* (a number, None, a bool), or a dict, whose iteration yields its keys
PyList(items) == [type |-> "list", items |-> items]

PyScalar == [type |-> "scalar", items |-> <<>>]

PyMapping == [type |-> "mapping", items |-> <<NonDict>>]

NotParsed == Raise("unused")

\* the value of a reference attribute.  A string is described by what it
\* is to the code: whether it is blank, what json.loads does with it and
\* what eval does with it.
RefsMissing ==
    [kind |-> "missing", items |-> <<>>, blank |-> TRUE,
     json |-> NotParsed, literal |-> NotParsed]

RefsList(items) ==
    [kind |-> "list", items |-> items, blank |-> FALSE,
     json |-> NotParsed, literal |-> NotParsed]

\* a truthy value that is neither a string nor a list (a dict, a number)
RefsOther ==
    [kind |-> "other", items |-> <<>>, blank |-> FALSE,
     json |-> NotParsed, literal |-> NotParsed]

RefsString(blank, json, literal) ==
    [kind |-> "str", items |-> <<>>, blank |-> blank,
     json |-> json, literal |-> literal]

\* "" or "  "
BlankString == RefsString(TRUE, NotParsed, NotParsed)

\* '[{"url": "a"}]': valid JSON
JsonString(v) == RefsString(FALSE, Ok(v), NotParsed)

\* "[{'url': 'a'}]": no JSON, a Python expression with a value ("not json"
\* is one too: json names the imported module, the value is False)
LiteralString(v) == RefsString(FALSE, Raise("JSONDecodeError"), Ok(v))

\* no JSON, and eval raises e: SyntaxError for "[{", SystemExit for "exit()"
UnparsableString(e) == RefsString(FALSE, Raise("JSONDecodeError"), Raise(e))

\* "[[[[...": json.loads raises RecursionError, no JSONDecodeError
DeepString == RefsString(FALSE, Raise("RecursionError"), NotParsed)

\* getattr(sample, column, '') or "": None and [] are falsy
RefsOrEmpty(v) ==
    IF v.kind = "missing" \/ (v.kind = "list" /\ v.items = <<>>)
    THEN BlankString
    ELSE v

\* lines 56-69: the value of refs_list, or the exception raised
Deserialize(data) ==
    IF data.kind = "str"
    THEN IF ~data.blank
         THEN IF data.json.exc = "none" THEN data.json
              ELSE IF data.json.exc = "JSONDecodeError" THEN data.literal
              ELSE data.json
         ELSE Ok(PyList(<<>>))
    ELSE IF data.kind = "list" THEN Ok(PyList(data.items))
    ELSE Ok(PyList(<<>>))

\* lines 56-69: the parsers invoked on one attribute, in order; eval is
\* called in the handler of json.JSONDecodeError only
ParserCalls(data) ==
    IF data.kind = "str" /\ ~data.blank
    THEN IF data.json.exc = "JSONDecodeError"
         THEN <<"json.loads", "eval">>
         ELSE <<"json.loads">>
    ELSE <<>>

\* lines 74-78 and 81-85: one field's token appended, when it has one
AppendToken(cfg, tokens, field) ==
    LET token == strip(field.chars)
    IN  IF token # <<>>
        THEN Append(tokens, IF ~cfg.case_sensitive THEN lower(token) ELSE token)
        ELSE tokens

\* lines 71-85: the loop over refs_list from entry i on
RECURSIVE ParseLoop(_, _, _, _, _)
ParseLoop(cfg, items, i, urls, titles) ==
    IF i > Len(items) THEN [exc |-> "none", urls |-> urls, titles |-> titles]
    ELSE LET ref == items[i]
         IN  IF ref.kind # "dict" THEN ParseLoop(cfg, items, i + 1, urls, titles)
             ELSE IF ref.url.kind = "nonstr"
             THEN [exc |-> "AttributeError", urls |-> urls, titles |-> titles]
             ELSE LET urls2 == AppendToken(cfg, urls, ref.url)
                  IN  IF ref.title.kind = "nonstr"
                      THEN [exc |-> "AttributeError", urls |-> urls2,
                            titles |-> titles]
                      ELSE ParseLoop(cfg, items, i + 1, urls2,
                                     AppendToken(cfg, titles, ref.title))

\* exc: the exception that escapes, or "none"; failed: the exception the
\* except clause caught, or "none"
Refs_parse_references(cfg, data) ==
    LET refs_list == Deserialize(data)
        loop == IF refs_list.exc # "none"
                THEN [exc |-> refs_list.exc, urls |-> <<>>, titles |-> <<>>]
                ELSE IF refs_list.val.type = "scalar"
                THEN [exc |-> "TypeError", urls |-> <<>>, titles |-> <<>>]
                ELSE ParseLoop(cfg, refs_list.val.items, 1, <<>>, <<>>)
    IN  [exc |-> IF IsException(loop.exc) THEN "none" ELSE loop.exc,
         failed |-> IF IsException(loop.exc) THEN loop.exc ELSE "none",
         urls |-> loop.urls,
         titles |-> loop.titles]

\* the references scorer with the tags scorer's policy for two empty lists
Refs_calculate_both_empty_one(y_true, y_pred) ==
    IF y_true = <<>> /\ y_pred = <<>> THEN One
    ELSE IF y_true = <<>> \/ y_pred = <<>> THEN Zero
    ELSE LET all_labels == ToSet(y_true \o y_pred)
             score == jaccard_score(Cardinality(all_labels),
                          MultiLabelBinarizer(all_labels, y_true),
                          MultiLabelBinarizer(all_labels, y_pred))
         IN  IF score.exc = "none" THEN score.val ELSE Zero

Refs_calculate_sklearn_jaccard(y_true, y_pred) ==
    IF y_true = <<>> /\ y_pred = <<>> THEN Zero
    ELSE IF y_true = <<>> \/ y_pred = <<>> THEN Zero
    ELSE LET all_labels == ToSet(y_true \o y_pred)
         IN  IF all_labels = {} THEN Zero
             ELSE LET score == jaccard_score(Cardinality(all_labels),
                                   MultiLabelBinarizer(all_labels, y_true),
                                   MultiLabelBinarizer(all_labels, y_pred))
                  IN  IF score.exc = "none" THEN score.val ELSE Zero

Refs_single_turn_ascore(cfg, smp) ==
    LET generated_refs == RefsOrEmpty(smp.generated)
        truth_refs == RefsOrEmpty(smp.truth)
        gen == Refs_parse_references(cfg, generated_refs)
        truth == Refs_parse_references(cfg, truth_refs)
    IN  IF gen.exc # "none" THEN ExceptReturnZero(gen.exc)
        ELSE IF truth.exc # "none" THEN ExceptReturnZero(truth.exc)
        ELSE LET url_jaccard ==
                     Refs_calculate_sklearn_jaccard(truth.urls, gen.urls)
                 title_jaccard ==
                     Refs_calculate_sklearn_jaccard(truth.titles, gen.titles)
             IN  Returned(Mean(url_jaccard, title_jaccard))

\* lines 153-154: the generated side is parsed first; the truth side is
\* parsed when that call returned
Refs_parser_calls(cfg, smp) ==
    LET generated_refs == RefsOrEmpty(smp.generated)
        truth_refs == RefsOrEmpty(smp.truth)
        log(side, data) ==
            [i \in 1..Len(ParserCalls(data)) |->
                [side |-> side, parser |-> ParserCalls(data)[i]]]
    IN  log("generated", generated_refs)
        \o IF Refs_parse_references(cfg, generated_refs).exc = "none"
           THEN log("truth", truth_refs)
           ELSE <<>>

\* the configurations of a references scorer; the class never reads its
\* strip_whitespace field
RefsConfigs == [case_sensitive : BOOLEAN]

\* what a parser may return: a short list, or a value that is no list
ParsedValues ==
    {PyList(l) : l \in RefListsUpTo(MaxParsedRefs)} \cup {PyScalar, PyMapping}

RefsValues ==
    {RefsMissing, RefsOther, BlankString, DeepString}
    \cup {RefsList(l) : l \in RefListsUpTo(MaxRefs)}
    \cup {JsonString(v) : v \in ParsedValues}
    \cup {LiteralString(v) : v \in ParsedValues}
    \cup {UnparsableString(e) : e \in {"SyntaxError", "SystemExit"}}

RefsSamples == [generated : RefsValues, truth : RefsValues]

----------------------------------------------------------------------------
(* truncate_context (src/src/utils.py; src/code/metrics/utils.py holds the *)
(* same code)                                                              *)

\* max_chars = max_tokens * 4
CharsPerToken == 4

PyNone == [kind |-> "none", chars |-> <<>>]

\* `not text` of a test that takes the empty string only
FalsyStringOnly(v) == v.kind = "str" /\ v.chars = <<>>

\* `not text`: None and "" are falsy
Falsy(v) == v.kind = "none" \/ v.chars = <<>>

\* len(text): None has no len()
len(v) == IF v.kind = "str" THEN Ok(Len(v.chars)) ELSE Raise("TypeError")

\* a test that sends a text of exactly max_chars characters to the cut
FitsStrictly(n, max_chars) == n < max_chars

\* a test that keeps room for the ellipsis
FitsWithRoom(n, max_chars) == n <= max_chars - 3

\* len(text) <= max_chars
Fits(n, max_chars) == n <= max_chars

\* s[:n]; a negative n counts from the end
SliceTo(s, n) ==
    IF n >= 0
    THEN SubSeq(s, 1, IF n < Len(s) THEN n ELSE Len(s))
    ELSE SubSeq(s, 1, IF Len(s) + n > 0 THEN Len(s) + n ELSE 0)

\* s.rfind(c): the index, counted from 0, of the last c in s, or -1
rfind(s, c) ==
    LET at == {i \in 1..Len(s) : s[i] = c}
    IN  IF at = {} THEN 0 - 1
        ELSE (CHOOSE i \in at : \A j \in at : j <= i) - 1

\* a test for a period anywhere in the second half of the slice
InLastHalf(last_period, max_chars) == 2 * last_period > max_chars

\* last_period > max_chars * 0.8; max_chars is a multiple of 4 and
\* 0.8 = 4/5, so the test is 5 * last_period > 4 * max_chars
InLastFifth(last_period, max_chars) == 5 * last_period > 4 * max_chars

truncate_context(txt, max_tok) ==
    IF Falsy(txt) THEN Ok(<<>>)
    ELSE LET max_chars == max_tok * CharsPerToken
             n == len(txt)
         IN  IF n.exc # "none" THEN n
             ELSE IF Fits(n.val, max_chars) THEN Ok(txt.chars)
             ELSE LET cut == SliceTo(txt.chars, max_chars)
                      last_period == rfind(cut, ".")
                  IN  IF InLastFifth(last_period, max_chars)
                      THEN Ok(SliceTo(cut, last_period + 1))
                      ELSE Ok(cut \o <<".", ".", ".">>)

\* no call of truncate_context made
NotTruncated == [exc |-> "nocall", val |-> <<>>]

TruncateIdle ==
    raw_context = PyNone /\ max_tokens = 0 /\ context = NotTruncated

----------------------------------------------------------------------------
(* Tasks that share one scorer instance *)

Tasks == 1..NumTasks

\* the frame of one call of _single_turn_ascore when every call shared one
\* set of variables, as attributes of the instance would be
Frame_shared(t) == 1

\* each call of _single_turn_ascore has its own frame of local variables
Frame(t) == t

\* a local variable not assigned yet
Unbound == [exc |-> "unbound"]

\* generated_text, truth_text, generated_list, truth_list (tags) or
\* generated_refs, truth_refs, (gen_urls, gen_titles), (truth_urls,
\* truth_titles) (references)
NoLocals ==
    [generated_text |-> Unbound, truth_text |-> Unbound,
     generated_list |-> Unbound, truth_list |-> Unbound]

\* a task that is not in a call; interleaved: another task took a step
\* while this task's call was under way
IdleTask ==
    [pc |-> "idle", sample |-> [generated |-> Missing, truth |-> Missing],
     result |-> NoCall, interleaved |-> FALSE]

TasksIdle ==
    /\ tasks = [t \in Tasks |-> IdleTask]
    /\ locals = [f \in Tasks |-> NoLocals]

\* the instance is called from the evaluation loop only
NoTasks == tasks = <<>> /\ locals = <<>>

\* no exception raised
NoError == [exc |-> "none", at |-> "none"]

\* the evaluation driver is not running
DriverIdle ==
    /\ df = <<>>
    /\ index = 0
    /\ row = <<>>
    /\ row_result = <<>>
    /\ results = <<>>
    /\ error = NoError
    /\ complete_results = <<>>

----------------------------------------------------------------------------
(* The instance and the calls made on it *)

Init ==
    /\ \/ scorer = "tags" /\ config \in TagsConfigs
       \/ scorer = "references" /\ config \in RefsConfigs
    /\ sample = [generated |-> Missing, truth |-> Missing]
    /\ outcome = NoCall
    /\ calls = <<>>
    /\ TruncateIdle
    /\ NoTasks
    /\ DriverIdle
    /\ pc = "idle"

ScoreTags ==
    /\ pc = "idle"
    /\ scorer = "tags"
    /\ \E smp \in TagsSamples :
          /\ sample' = smp
          /\ outcome' = Tags_single_turn_ascore(config, smp)
    /\ calls' = <<>>
    /\ pc' = "done"
    /\ UNCHANGED <<scorer, config, truncVars, taskVars, driverVars>>

ScoreReferences ==
    /\ pc = "idle"
    /\ scorer = "references"
    /\ \E smp \in RefsSamples :
          /\ sample' = smp
          /\ outcome' = Refs_single_turn_ascore(config, smp)
          /\ calls' = Refs_parser_calls(config, smp)
    /\ pc' = "done"
    /\ UNCHANGED <<scorer, config, truncVars, taskVars, driverVars>>

\* the caller takes the result; the instance is ready for the next sample
NextSample ==
    /\ pc = "done"
    /\ pc' = "idle"
    /\ sample' = [generated |-> Missing, truth |-> Missing]
    /\ outcome' = NoCall
    /\ calls' = <<>>
    /\ UNCHANGED <<scorer, config, truncVars, taskVars, driverVars>>

Next == ScoreTags \/ ScoreReferences \/ NextSample

Spec == Init /\ [][Next]_vars

----------------------------------------------------------------------------
(* Properties of the scorers *)

\* |A \cap B| / |A \cup B| for two sets that are not both empty
JaccardIndex(A, B) == Frac(Cardinality(A \cap B), Cardinality(A \cup B))

TagsCall == pc = "done" /\ scorer = "tags"

RefsCall == pc = "done" /\ scorer = "references"

IsText(v) == v.kind \in {"str", "missing"}

\* the normalized tokens of one side of a tags sample
TagTokens(v) == Tags_preprocess_text(config, OrEmpty(v))

\* both sides are texts whose token lists exist
TokensDefined ==
    /\ IsText(sample.generated) /\ IsText(sample.truth)
    /\ TagTokens(sample.generated).exc = "none"
    /\ TagTokens(sample.truth).exc = "none"

GeneratedSet == ToSet(TagTokens(sample.generated).val)

TruthSet == ToSet(TagTokens(sample.truth).val)

\* the URL and title tokens of one side of a references sample
RefTokens(v) == Refs_parse_references(config, RefsOrEmpty(v))

\* C1: in the tags scorer, for two texts whose normalized token sets A
\* (generated) and B (truth) are both non-empty, the call returns exactly
\* |A \cap B| / |A \cup B|
C1_ExactJaccard ==
    (TagsCall /\ TokensDefined /\ GeneratedSet # {} /\ TruthSet # {})
    => outcome = Returned(JaccardIndex(GeneratedSet, TruthSet))

\* C2: in the tags scorer, two empty token sets score 1.0 and exactly one
\* empty token set scores 0.0
C2_EmptySetPolicy ==
    (TagsCall /\ TokensDefined)
    => /\ (GeneratedSet = {} /\ TruthSet = {}) => outcome = Returned(One)
       /\ ((GeneratedSet = {}) # (TruthSet = {})) => outcome = Returned(Zero)

\* a non-empty text without any token, scored against a missing text
C2_Witness ==
    /\ TagsCall /\ TokensDefined
    /\ sample.generated.kind = "str" /\ sample.generated.chars # <<>>
    /\ GeneratedSet = {}
    /\ sample.truth = Missing
    /\ outcome = Returned(One)

\* one component of the references score as C3 states it
RefsComponent(A, B) == IF A = {} \/ B = {} THEN Zero ELSE JaccardIndex(A, B)

\* C3: the references scorer returns (J_url + J_title) / 2, each J the
\* Jaccard index of the two sides' token sets, 0.0 when a set is empty
C3_MeanOfJaccards ==
    (RefsCall /\ outcome.raised = "none")
    => outcome.score =
          Mean(RefsComponent(ToSet(RefTokens(sample.generated).urls),
                             ToSet(RefTokens(sample.truth).urls)),
               RefsComponent(ToSet(RefTokens(sample.generated).titles),
                             ToSet(RefTokens(sample.truth).titles)))

\* C4: every value either scorer returns lies in [0, 1]
C4_ScoreInUnitInterval ==
    (pc = "done" /\ outcome.raised = "none")
    => LessEq(Zero, outcome.score) /\ LessEq(outcome.score, One)

\* the references scorer returns the mean of two components that are 1.0
C4_Witness == RefsCall /\ outcome = Returned(One)

Swapped(smp) == [generated |-> smp.truth, truth |-> smp.generated]

ScoreOf(smp) ==
    IF scorer = "tags" THEN Tags_single_turn_ascore(config, smp)
    ELSE Refs_single_turn_ascore(config, smp)

\* C5: scoring X as generated against Y as truth gives what scoring Y as
\* generated against X as truth gives, in both scorers
C5_Symmetric == pc = "done" => outcome = ScoreOf(Swapped(sample))

\* two different texts with a partial overlap
C5_Witness ==
    /\ TagsCall
    /\ sample.generated # sample.truth
    /\ outcome = Returned(Frac(1, 2))

\* C6: in the tags scorer, a non-empty text scored against itself gives 1.0
\* under every configuration; stated for the configurations whose delimiter
\* str.split accepts
C6_SelfScoreTags ==
    (TagsCall /\ config.delimiter # <<>>
        /\ sample.generated.kind = "str" /\ sample.generated.chars # <<>>
        /\ sample.truth = sample.generated)
    => outcome = Returned(One)

\* a dict that carries a url and a title, both non-empty after trimming
IsRecord(e) ==
    /\ e.kind = "dict"
    /\ e.url.kind = "str" /\ strip(e.url.chars) # <<>>
    /\ e.title.kind = "str" /\ strip(e.title.chars) # <<>>

\* C7: in the references scorer, a non-empty list of records scored against
\* itself gives 1.0; stated for the records that carry both a url and a title
C7_SelfScoreRefs ==
    (RefsCall /\ sample.generated.kind = "list" /\ sample.generated.items # <<>>
        /\ \A i \in DOMAIN sample.generated.items :
              IsRecord(sample.generated.items[i])
        /\ sample.truth = sample.generated)
    => outcome = Returned(One)

TagsNonEmpty(v) == v.kind = "str" /\ v.chars # <<>>

TagsEmpty(v) == v = Str(<<>>)

RefsNonEmpty(v) ==
    (v.kind = "list" /\ v.items # <<>>) \/ (v.kind = "str" /\ ~v.blank)

\* the empty list or the empty string
RefsEmpty(v) == v = RefsList(<<>>) \/ v = BlankString

TagsHasTokens(v) ==
    v.kind = "str" /\ TagTokens(v).exc = "none" /\ TagTokens(v).val # <<>>

\* a non-empty list, or a non-blank string that json.loads parses
RefsListOrJson(v) ==
    \/ v.kind = "list" /\ v.items # <<>>
    \/ v.kind = "str" /\ ~v.blank /\ v.json.exc = "none"

InternalFailure ==
    IF scorer = "tags"
    THEN \/ Tags_preprocess_text(config, OrEmpty(sample.generated)).exc # "none"
         \/ Tags_preprocess_text(config, OrEmpty(sample.truth)).exc # "none"
    ELSE \/ RefTokens(sample.generated).failed # "none"
         \/ RefTokens(sample.truth).failed # "none"

\* C9: no exception escapes a call of either scorer, and a call in which an
\* internal step failed returns 0.0
C9_NoExceptionEscapes ==
    pc = "done"
    => /\ outcome.raised = "none"
       /\ InternalFailure => outcome.score = Zero

\* a non-blank string that neither json.loads nor eval turns into a value
CannotBeDeserialized(v) ==
    v.kind = "str" /\ ~v.blank /\ Deserialize(v).exc # "none"

\* C10: when one side of a references sample is a string that cannot be
\* deserialized, no exception is raised and the score is 0.0
C10_UnparsableSideScoresZero ==
    (RefsCall /\ \/ CannotBeDeserialized(sample.generated)
                 \/ CannotBeDeserialized(sample.truth))
    => outcome = Returned(Zero)

\* the parsers the last call invoked on one side of the sample, in order
ParsersOn(side) ==
    LET on == SelectSeq(calls, LAMBDA c : c.side = side)
    IN  [i \in 1..Len(on) |-> on[i].parser]

\* the last call handed this side of the sample to _parse_references
WasParsed(side) ==
    side = "generated" \/ RefTokens(sample.generated).exc = "none"

\* C11: for a side that is a non-blank string, json.loads is the first
\* parser invoked; eval is invoked only after json.loads has failed, never
\* after it succeeded; and when both fail the side has no tokens and no
\* exception is raised
C11_JsonThenLiteral ==
    RefsCall
    => \A side \in {"generated", "truth"} :
          LET v == sample[side]
              parsers == ParsersOn(side)
          IN  (v.kind = "str" /\ ~v.blank /\ WasParsed(side))
              => /\ parsers # <<>> /\ parsers[1] = "json.loads"
                 /\ \A i \in 1..Len(parsers) :
                       parsers[i] = "eval" => i = 2 /\ v.json.exc # "none"
                 /\ (parsers = <<"json.loads", "eval">>
                        /\ v.literal.exc # "none")
                    => /\ RefTokens(v).exc = "none"
                       /\ RefTokens(v).urls = <<>>
                       /\ RefTokens(v).titles = <<>>

\* a dict whose url and title are each a string or absent
WellFormed(e) ==
    e.kind = "dict" /\ e.url.kind # "nonstr" /\ e.title.kind # "nonstr"

\* the tokens that the well-formed records among items[i..] carry in one
\* field ("url" or "title"), in the order of the list
RECURSIVE TokensOfWellFormed(_, _, _)
TokensOfWellFormed(items, i, field) ==
    IF i > Len(items) THEN <<>>
    ELSE (IF WellFormed(items[i])
          THEN AppendToken(config, <<>>, items[i][field])
          ELSE <<>>)
         \o TokensOfWellFormed(items, i + 1, field)

\* the side is a list, or a string that deserializes to a list
HoldsList(v) ==
    /\ v.kind \in {"list", "str"}
    /\ Deserialize(RefsOrEmpty(v)).exc = "none"
    /\ Deserialize(RefsOrEmpty(v)).val.type = "list"

ListOf(v) == Deserialize(RefsOrEmpty(v)).val.items

\* C12: a malformed entry of a reference list does not affect the other
\* entries: every well-formed record of a side, before or after a malformed
\* entry, contributes its URL token and its title token
C12_MalformedEntrySkipped ==
    RefsCall
    => \A side \in {"generated", "truth"} :
          HoldsList(sample[side])
          => /\ ToSet(TokensOfWellFormed(ListOf(sample[side]), 1, "url"))
                  \subseteq ToSet(RefTokens(sample[side]).urls)
             /\ ToSet(TokensOfWellFormed(ListOf(sample[side]), 1, "title"))
                  \subseteq ToSet(RefTokens(sample[side]).titles)

\* the tokens the records among items[i..] carry in one field: a record has
\* a token there when the field is a string that is non-empty after trimming
RECURSIVE TokensOfRecords(_, _, _)
TokensOfRecords(items, i, field) ==
    IF i > Len(items) THEN <<>>
    ELSE LET e == items[i]
             present == e.kind = "dict" /\ e[field].kind = "str"
                        /\ strip(e[field].chars) # <<>>
             token == IF config.case_sensitive
                      THEN strip(e[field].chars)
                      ELSE lower(strip(e[field].chars))
         IN  (IF present THEN <<token>> ELSE <<>>)
             \o TokensOfRecords(items, i + 1, field)

\* C13: a record contributes a URL token exactly when its url is present and
\* non-empty after trimming, and a title token exactly when its title is;
\* the one field does not depend on the other
C13_FieldsContributeIndependently ==
    RefsCall
    => \A side \in {"generated", "truth"} :
          HoldsList(sample[side])
          => /\ RefTokens(sample[side]).urls
                  = TokensOfRecords(ListOf(sample[side]), 1, "url")
             /\ RefTokens(sample[side]).titles
                  = TokensOfRecords(ListOf(sample[side]), 1, "title")

\* a text that is one token of letters
IsOneToken(v) ==
    v.kind = "str" /\ v.chars # <<>>
    /\ \A i \in 1..Len(v.chars) : v.chars[i] \in {"a", "A"}

\* C14: two tokens that differ in letter case only, such as "Tag" and "tag",
\* score 1.0 against each other when case_sensitive is False and 0.0 when it
\* is True
C14_CaseFolding ==
    (/\ TagsCall /\ config.delimiter # <<>>
     /\ IsOneToken(sample.generated) /\ IsOneToken(sample.truth)
     /\ sample.generated.chars # sample.truth.chars
     /\ lower(sample.generated.chars) = lower(sample.truth.chars))
    => outcome = Returned(IF config.case_sensitive THEN Zero ELSE One)

----------------------------------------------------------------------------
(* The metric built by create_tags_jaccard_metric, called on the samples   *)
(* the evaluation builds                                                   *)

\* the tag texts: two tags, one of them in both cases, the pipe and a comma
FactoryChars == {"a", "A", "b", "|", ","}

FactoryTexts == UNION {[1..k -> FactoryChars] : k \in 0..MaxLen}

\* the fields of TagsJaccardSimilarityMetric() as the dataclass defaults them
TagsJaccardSimilarityMetric_defaults ==
    [generated_column |-> "response", truth_column |-> "reference",
     delimiter |-> <<",">>, case_sensitive |-> FALSE,
     strip_whitespace |-> TRUE]

\* the fields of the instance the factory returns
create_tags_jaccard_metric ==
    [generated_column |-> "tags_generated", truth_column |-> "tags_truth",
     delimiter |-> <<"|">>, case_sensitive |-> FALSE,
     strip_whitespace |-> TRUE]

\* PublicationSample(**kwargs): one attribute for each keyword
PublicationSample(kwargs) == kwargs

\* getattr(sample, column, ''): the attribute, or the default
GetAttr(smp, column) ==
    IF column \in DOMAIN smp THEN smp[column] ELSE Str(<<>>)

\* the two attributes the instance's columns name
Columns(cfg, smp) ==
    [generated |-> GetAttr(smp, cfg.generated_column),
     truth |-> GetAttr(smp, cfg.truth_column)]

\* a sample of the tags evaluation; it carries the default columns of
\* another use as well
FactorySample(generated, truth) ==
    PublicationSample([tags_generated |-> Str(generated),
                       tags_truth |-> Str(truth),
                       response |-> Str(<<"a">>), reference |-> Str(<<"b">>)])

FactoryInit ==
    /\ scorer = "tags"
    /\ config = create_tags_jaccard_metric
    /\ sample = PublicationSample(<<>>)
    /\ outcome = NoCall
    /\ calls = <<>>
    /\ TruncateIdle
    /\ NoTasks
    /\ DriverIdle
    /\ pc = "idle"

ScorePublication ==
    /\ pc = "idle"
    /\ \E generated \in FactoryTexts, truth \in FactoryTexts :
          LET smp == FactorySample(generated, truth)
          IN  /\ sample' = smp
              /\ outcome' = Tags_single_turn_ascore(config,
                                                    Columns(config, smp))
    /\ pc' = "done"
    /\ UNCHANGED <<scorer, config, calls, truncVars, taskVars, driverVars>>

NextPublication ==
    /\ pc = "done"
    /\ pc' = "idle"
    /\ sample' = PublicationSample(<<>>)
    /\ outcome' = NoCall
    /\ UNCHANGED <<scorer, config, calls, truncVars, taskVars, driverVars>>

FactoryNext == ScorePublication \/ NextPublication

SpecFactory == FactoryInit /\ [][FactoryNext]_vars

\* the tags of a text: its pieces between pipes, trimmed, lower-cased, the
\* empty ones dropped
PipeTokens(text) ==
    {lower(strip(piece)) : piece \in ToSet(SplitFrom(text, <<"|">>, 1, <<>>))}
    \ {<<>>}

\* C15: the factory's metric scores the tags_generated attribute against the
\* tags_truth attribute, as sets of pipe-separated tags compared without
\* regard to case; a comma is part of a tag.  Stated for the samples with
\* other than one distinct tag: no tags at all score 1.0, the others their
\* Jaccard index
C15_FactoryMetric ==
    pc = "done"
    => LET G == PipeTokens(sample.tags_generated.chars)
           T == PipeTokens(sample.tags_truth.chars)
       IN  Cardinality(G \cup T) # 1
           => outcome = Returned(IF G \cup T = {} THEN One
                                 ELSE JaccardIndex(T, G))

\* truth "a|b" against generated "b|A" scores 1.0
C15_Witness ==
    /\ pc = "done"
    /\ sample.tags_truth = Str(<<"a", "|", "b">>)
    /\ sample.tags_generated = Str(<<"b", "|", "A">>)
    /\ outcome = Returned(One)

----------------------------------------------------------------------------
(* truncate_context called on publication descriptions *)

\* a text of n characters with periods at the given positions, counted
\* from 1; position 0 places none
ContextText(n, periods) ==
    [i \in 1..n |-> IF \E k \in DOMAIN periods : periods[k] = i
                    THEN "." ELSE "x"]

\* the values of pub_descriptions.get(pub_id, "") that have n characters:
\* the texts, and None for a JSON null
ContextValues(n) ==
    {Str(ContextText(n, periods)) : periods \in [1..MaxPeriods -> 0..n]}
    \cup (IF n = 0 THEN {PyNone} ELSE {})

\* the integers given as max_tokens
TokenBudgets == (0 - 1)..MaxTokens

TruncateInit ==
    /\ scorer = "none"
    /\ config = <<>>
    /\ sample = PublicationSample(<<>>)
    /\ outcome = NoCall
    /\ calls = <<>>
    /\ TruncateIdle
    /\ NoTasks
    /\ DriverIdle
    /\ pc = "idle"

Truncate ==
    /\ pc = "idle"
    /\ \E n \in 0..MaxText, max_tok \in TokenBudgets :
       \E txt \in ContextValues(n) :
          /\ raw_context' = txt
          /\ max_tokens' = max_tok
          /\ context' = truncate_context(txt, max_tok)
    /\ pc' = "done"
    /\ UNCHANGED <<scorer, config, sample, outcome, calls, taskVars, driverVars>>

\* the text a call returned is truncated once more, to the same budget
TruncateAgain ==
    /\ pc = "done"
    /\ context.exc = "none"
    /\ raw_context' = Str(context.val)
    /\ context' = truncate_context(Str(context.val), max_tokens)
    /\ pc' = "again"
    /\ UNCHANGED <<scorer, config, sample, outcome, calls, max_tokens,
                   taskVars, driverVars>>

\* the caller takes the context and goes on to the next row
NextContext ==
    /\ pc \in {"done", "again"}
    /\ pc' = "idle"
    /\ raw_context' = PyNone
    /\ max_tokens' = 0
    /\ context' = NotTruncated
    /\ UNCHANGED <<scorer, config, sample, outcome, calls, taskVars, driverVars>>

TruncateNext == Truncate \/ TruncateAgain \/ NextContext

SpecTruncate == TruncateInit /\ [][TruncateNext]_vars

\* the character budget of the last call
Budget == max_tokens * 4

\* C16: a text of at most max_tokens * 4 characters is returned unchanged
C16_FittingTextUnchanged ==
    (pc = "done" /\ raw_context.kind = "str"
        /\ Len(raw_context.chars) <= Budget)
    => context = Ok(raw_context.chars)

\* a text of exactly max_tokens * 4 characters, returned as it is
C16_Witness ==
    /\ pc = "done"
    /\ raw_context.kind = "str"
    /\ max_tokens > 0
    /\ Len(raw_context.chars) = Budget
    /\ context = Ok(raw_context.chars)

\* C17: the string truncate_context returns has at most max_tokens * 4
\* characters; stated for a positive max_tokens
C17_WithinBudget ==
    (pc = "done" /\ max_tokens > 0 /\ context.exc = "none")
    => Len(context.val) <= Budget

\* the first max_tokens * 4 characters of the text
BudgetSlice == SubSeq(raw_context.chars, 1, Budget)

\* the position, counted from 1, of the last period of s; 0 when it has none
LastPeriod(s) ==
    LET at == {i \in 1..Len(s) : s[i] = "."}
    IN  IF at = {} THEN 0 ELSE CHOOSE i \in at : \A j \in at : j <= i

\* the character at position i, counted from 1, lies within the final 20% of
\* a slice of n characters: more than 80% of the slice lies before it
InFinalFifth(i, n) == i >= 1 /\ 5 * (i - 1) > 4 * n

\* the text of the last call is longer than the budget, which is not negative
ExceedsBudget ==
    /\ pc = "done" /\ raw_context.kind = "str"
    /\ max_tokens >= 0
    /\ Len(raw_context.chars) > Budget

C19_NeverRaises ==
    pc = "done"
    => /\ context.exc = "none"
       /\ (raw_context = PyNone \/ raw_context = Str(<<>>))
          => context = Ok(<<>>)

\* None given as the text, the empty string returned
C19_Witness ==
    pc = "done" /\ raw_context = PyNone /\ context = Ok(<<>>)

----------------------------------------------------------------------------
(* Concurrent calls of _single_turn_ascore on one shared instance.  The    *)
(* coroutine awaits nothing, so the event loop runs each call in one       *)
(* piece; the steps below let the calls interleave statement by statement, *)
(* as calls from several threads may.                                      *)

\* the attribute values the tasks score with a tags instance
ConcurrentTagsValues == {Str(<<"a", ",", "A">>), NonString}

\* the attribute values the tasks score with a references instance
ConcurrentRefsValues ==
    {RefsList(<<Ref(Field(<<"a">>), Field(<<"a">>)),
                Ref(Field(<<" ", "A">>), Field(<<"b">>))>>),
     UnparsableString("SystemExit")}

ConcurrentSamples ==
    IF scorer = "tags"
    THEN [generated : ConcurrentTagsValues, truth : ConcurrentTagsValues]
    ELSE [generated : ConcurrentRefsValues, truth : ConcurrentRefsValues]

ConcurrentInit ==
    /\ \/ scorer = "tags" /\ config \in TagsConfigs
       \/ scorer = "references" /\ config \in RefsConfigs
    /\ sample = [generated |-> Missing, truth |-> Missing]
    /\ outcome = NoCall
    /\ calls = <<>>
    /\ TruncateIdle
    /\ TasksIdle
    /\ DriverIdle
    /\ pc = "idle"

\* no statement of _single_turn_ascore assigns to the instance
instanceVars ==
    <<scorer, config, sample, outcome, calls, truncVars, driverVars, pc>>

\* task t takes a step to position p: the tasks whose call is under way
\* have been interleaved with
Step(t, p, result) ==
    /\ tasks' = [u \in Tasks |->
                   IF u = t
                   THEN [tasks[t] EXCEPT !.pc = p, !.result = result]
                   ELSE IF tasks[u].pc \notin {"idle", "done"}
                   THEN [tasks[u] EXCEPT !.interleaved = TRUE]
                   ELSE tasks[u]]
    /\ UNCHANGED instanceVars

\* a task calls the instance on a sample
Call(t) ==
    /\ tasks[t].pc = "idle"
    /\ \E smp \in ConcurrentSamples :
          tasks' = [tasks EXCEPT ![t] = [pc |-> "called", sample |-> smp,
                                         result |-> NoCall,
                                         interleaved |-> FALSE]]
    /\ UNCHANGED <<locals, instanceVars>>

\* tags_jaccard.py:126, references_jaccard.py:149
GetGenerated(t) ==
    /\ tasks[t].pc = "called"
    /\ locals' = [locals EXCEPT ![Frame(t)].generated_text =
                     IF scorer = "tags" THEN OrEmpty(tasks[t].sample.generated)
                     ELSE RefsOrEmpty(tasks[t].sample.generated)]
    /\ Step(t, "generated_text", NoCall)

\* tags_jaccard.py:127, references_jaccard.py:150
GetTruth(t) ==
    /\ tasks[t].pc = "generated_text"
    /\ locals' = [locals EXCEPT ![Frame(t)].truth_text =
                     IF scorer = "tags" THEN OrEmpty(tasks[t].sample.truth)
                     ELSE RefsOrEmpty(tasks[t].sample.truth)]
    /\ Step(t, "truth_text", NoCall)

\* _preprocess_text or _parse_references on a local variable
Preprocess(v) ==
    IF scorer = "tags" THEN Tags_preprocess_text(config, v)
    ELSE Refs_parse_references(config, v)

\* tags_jaccard.py:130, references_jaccard.py:153; an exception ends the call
PreprocessGenerated(t) ==
    /\ tasks[t].pc = "truth_text"
    /\ LET list == Preprocess(locals[Frame(t)].generated_text)
       IN  IF list.exc # "none"
           THEN /\ Step(t, "done", ExceptReturnZero(list.exc))
                /\ UNCHANGED locals
           ELSE /\ Step(t, "generated_list", NoCall)
                /\ locals' = [locals EXCEPT ![Frame(t)].generated_list = list]

\* tags_jaccard.py:131, references_jaccard.py:154
PreprocessTruth(t) ==
    /\ tasks[t].pc = "generated_list"
    /\ LET list == Preprocess(locals[Frame(t)].truth_text)
       IN  IF list.exc # "none"
           THEN /\ Step(t, "done", ExceptReturnZero(list.exc))
                /\ UNCHANGED locals
           ELSE /\ Step(t, "truth_list", NoCall)
                /\ locals' = [locals EXCEPT ![Frame(t)].truth_list = list]

\* tags_jaccard.py:134-136, references_jaccard.py:157-161
Calculate(t) ==
    /\ tasks[t].pc = "truth_list"
    /\ LET gen == locals[Frame(t)].generated_list
           truth == locals[Frame(t)].truth_list
       IN  Step(t, "done",
                IF scorer = "tags"
                THEN Returned(Tags_calculate_sklearn_jaccard(truth.val, gen.val))
                ELSE Returned(Mean(
                         Refs_calculate_sklearn_jaccard(truth.urls, gen.urls),
                         Refs_calculate_sklearn_jaccard(truth.titles,
                                                        gen.titles))))
    /\ UNCHANGED locals

\* the caller takes the result; the frame of the call is gone
TakeResult(t) ==
    /\ tasks[t].pc = "done"
    /\ tasks' = [tasks EXCEPT ![t] = IdleTask]
    /\ locals' = [locals EXCEPT ![Frame(t)] = NoLocals]
    /\ UNCHANGED instanceVars

ConcurrentNext ==
    \E t \in Tasks :
       \/ Call(t)
       \/ GetGenerated(t)
       \/ GetTruth(t)
       \/ PreprocessGenerated(t)
       \/ PreprocessTruth(t)
       \/ Calculate(t)
       \/ TakeResult(t)

SpecConcurrent == ConcurrentInit /\ [][ConcurrentNext]_vars

\* what a call on the sample returns when it runs alone
Alone(smp) ==
    IF scorer = "tags" THEN Tags_single_turn_ascore(config, smp)
    ELSE Refs_single_turn_ascore(config, smp)

----------------------------------------------------------------------------
(* The evaluation driver: evaluate_dataset of src/run_evals.py.            *)
(* src/code/ragas_evals.py holds the same loop with one more block.        *)

\* most rows of a dataset
MaxRows == 2

\* max_tokens of the driver's call of truncate_context
MaxContextTokens == 8000

Ids == {"p1", "p2"}

\* the publication_external_id column of the datasets: ids may repeat
Datasets == UNION {[1..n -> Ids] : n \in 1..MaxRows}

\* an empty cell of the CSV file: pandas reads it as NaN
TextNaN == [kind |-> "nan", chars |-> <<>>]

RefsNaN ==
    [kind |-> "nan", items |-> <<>>, blank |-> FALSE,
     json |-> NotParsed, literal |-> NotParsed]

\* pd.notna(cell)
notna(v) == v.kind # "nan"

\* str(cell): a text is itself; NaN becomes "nan", which is no JSON and
\* whose eval raises NameError
str(v) ==
    IF v.kind # "nan" THEN v
    ELSE IF "items" \in DOMAIN v THEN UnparsableString("NameError")
    ELSE Str(<<"n", "a", "n">>)

\* a references cell: '[{"url": "a", "title": "a"}]'
RefsCell == JsonString(PyList(<<Ref(Field(<<"a">>), Field(<<"a">>))>>))

\* the rows with a given id.  title_generated and the tldr cells are
\* always filled; a references cell may hold "exit()"
Rows(id) ==
    [publication_external_id : {id},
     title_truth : {TextNaN, Str(<<"a">>)},
     title_generated : {Str(<<"a">>)},
     tldr_truth : {Str(<<"a">>)},
     tldr_generated : {Str(<<"a">>)},
     references_truth : {RefsNaN, RefsCell},
     references_generated :
         {RefsNaN, RefsCell, UnparsableString("SystemExit")},
     tags_truth : {TextNaN, Str(<<"a", "|", "b">>)},
     tags_generated : {TextNaN, Str(<<"a", "|", "A">>)}]

NoRow == <<>>

\* pub_descriptions.get(pub_id, ""): "" for an id the JSON file lacks, None
\* for a null description, or the description
Descriptions == {Str(<<>>), PyNone, Str(<<"a", ".">>)}

\* None, the value of a metric that was not computed
Null == <<>>

initialize_result_dict(publication_id) ==
    [publication_external_id |-> publication_id,
     title_semantic_similarity |-> Null,
     tldr_semantic_similarity |-> Null,
     references_semantic_similarity |-> Null,
     tags_semantic_similarity |-> Null,
     references_jaccard_similarity |-> Null,
     tags_jaccard_similarity |-> Null,
     title_faithfulness |-> Null,
     tldr_faithfulness |-> Null,
     references_faithfulness |-> Null,
     tags_faithfulness |-> Null]

\* the metrics in the order print_evaluation_scores prints them
Metrics ==
    <<"title_semantic_similarity", "title_faithfulness",
      "tldr_semantic_similarity", "tldr_faithfulness",
      "references_semantic_similarity", "references_jaccard_similarity",
      "references_faithfulness", "tags_semantic_similarity",
      "tags_jaccard_similarity", "tags_faithfulness">>

\* what a call of semantic_scorer or faithfulness_scorer does: it returns a
\* float or raises
ExternalOutcomes == {Returned(Frac(1, 2)), Escaped("ValueError")}

\* a format that has no text for None
format_score_number(score) ==
    IF score = Null THEN Raise("TypeError")
    ELSE Ok(<<"number", (2000 * score[1] + score[2]) \div (2 * score[2])>>)

\* f"{score:.3f}" if score is not None else "N/A": the thousandths of a
\* number
format_score(score) ==
    IF score = Null THEN Ok(<<"N/A", 0>>)
    ELSE Ok(<<"number", (2000 * score[1] + score[2]) \div (2 * score[2])>>)

\* the exception print_evaluation_scores raises, "none" if it returns
RECURSIVE PrintFrom(_, _)
PrintFrom(res, i) ==
    IF i > Len(Metrics) THEN "none"
    ELSE LET line == format_score(res[Metrics[i]])
         IN  IF line.exc # "none" THEN line.exc ELSE PrintFrom(res, i + 1)

print_evaluation_scores(res) == PrintFrom(res, 1)

\* create_references_jaccard_metric(): the fields of the instance
create_references_jaccard_metric == [case_sensitive |-> FALSE]

\* the awaits of one block, in order: each binds its key of the result, or
\* raises and leaves the later ones undone
RECURSIVE RunBlock(_, _, _)
RunBlock(res, awaits, i) ==
    IF i > Len(awaits) THEN [result |-> res, error |-> NoError]
    ELSE LET a == awaits[i]
         IN  IF a.outcome.raised = "none"
             THEN RunBlock([res EXCEPT ![a.key] = a.outcome.score],
                           awaits, i + 1)
             ELSE [result |-> res,
                   error |-> [exc |-> a.outcome.raised, at |-> a.key]]

Await(key, call) == [key |-> key, outcome |-> call]

\* a block guarded by a test that takes one filled cell for enough
EitherPresent(truth, generated, awaits) ==
    IF notna(truth) \/ notna(generated)
    THEN RunBlock(row_result, awaits, 1)
    ELSE [result |-> row_result, error |-> NoError]

\* if pd.notna(row[..._truth]) and pd.notna(row[..._generated]): <awaits>
Block(truth, generated, awaits) ==
    IF notna(truth) /\ notna(generated)
    THEN RunBlock(row_result, awaits, 1)
    ELSE [result |-> row_result, error |-> NoError]

\* where control goes from a statement of the try block: on, to the
\* handler of `except Exception`, or out of the loop and of the coroutine
Leave(block, next) ==
    /\ row_result' = block.result
    /\ error' = block.error
    /\ pc' = IF block.error.exc = "none" THEN next
             ELSE IF IsException(block.error.exc) THEN "except"
             ELSE "halted"

loopVars == <<df, index, row, results, complete_results>>

otherVars == <<scorer, config, sample, outcome, calls, taskVars>>

DriverInit ==
    /\ scorer = "driver"
    /\ config = <<>>
    /\ sample = PublicationSample(<<>>)
    /\ outcome = NoCall
    /\ calls = <<>>
    /\ TruncateIdle
    /\ NoTasks
    /\ df \in Datasets
    /\ index = 0
    /\ row = NoRow
    /\ row_result = <<>>
    /\ results = <<>>
    /\ error = NoError
    /\ complete_results = <<>>
    /\ pc = "for"

\* lines 57-70: the next row, its context, a fresh result
Iterate ==
    /\ pc = "for"
    /\ index < Len(df)
    /\ \E r \in Rows(df[index + 1]), description \in Descriptions :
          LET n == len(description)
          IN  /\ row' = r
              /\ raw_context' = description
              /\ max_tokens' = MaxContextTokens
              /\ context' = truncate_context(description, MaxContextTokens)
              /\ IF n.exc # "none"
                 THEN /\ error' = [exc |-> n.exc, at |-> "len"]
                      /\ pc' = "except"
                      /\ UNCHANGED row_result
                 ELSE /\ error' = NoError
                      /\ pc' = "title"
                      /\ row_result' =
                             initialize_result_dict(r.publication_external_id)
    /\ index' = index + 1
    /\ UNCHANGED <<df, results, complete_results, otherVars>>

\* lines 73-88
EvalTitle ==
    /\ pc = "title"
    /\ \E semantic \in ExternalOutcomes, faithfulness \in ExternalOutcomes :
          Leave(Block(row.title_truth, row.title_generated,
                      <<Await("title_semantic_similarity", semantic),
                        Await("title_faithfulness", faithfulness)>>),
                "tldr")
    /\ UNCHANGED <<loopVars, truncVars, otherVars>>

\* lines 91-106
EvalTldr ==
    /\ pc = "tldr"
    /\ \E semantic \in ExternalOutcomes, faithfulness \in ExternalOutcomes :
          Leave(Block(row.tldr_truth, row.tldr_generated,
                      <<Await("tldr_semantic_similarity", semantic),
                        Await("tldr_faithfulness", faithfulness)>>),
                "references")
    /\ UNCHANGED <<loopVars, truncVars, otherVars>>

\* lines 121-125: the sample and the call of the references scorer
ReferencesJaccard(r) ==
    Refs_single_turn_ascore(
        create_references_jaccard_metric,
        [generated |-> str(r.references_generated),
         truth |-> str(r.references_truth)])

\* lines 109-133
EvalReferences ==
    /\ pc = "references"
    /\ \E semantic \in ExternalOutcomes, faithfulness \in ExternalOutcomes :
          Leave(Block(row.references_truth, row.references_generated,
                      <<Await("references_semantic_similarity", semantic),
                        Await("references_jaccard_similarity",
                              ReferencesJaccard(row)),
                        Await("references_faithfulness", faithfulness)>>),
                "tags")
    /\ UNCHANGED <<loopVars, truncVars, otherVars>>

\* lines 148-152: the sample and the call of the tags scorer
TagsJaccard(r) ==
    Tags_single_turn_ascore(
        create_tags_jaccard_metric,
        Columns(create_tags_jaccard_metric,
                PublicationSample([tags_generated |-> str(r.tags_generated),
                                   tags_truth |-> str(r.tags_truth)])))

\* lines 136-160
EvalTags ==
    /\ pc = "tags"
    /\ \E semantic \in ExternalOutcomes, faithfulness \in ExternalOutcomes :
          Leave(Block(row.tags_truth, row.tags_generated,
                      <<Await("tags_semantic_similarity", semantic),
                        Await("tags_jaccard_similarity", TagsJaccard(row)),
                        Await("tags_faithfulness", faithfulness)>>),
                "append")
    /\ UNCHANGED <<loopVars, truncVars, otherVars>>

\* lines 162-165: the result is appended, then printed, inside the try
AppendResult ==
    /\ pc = "append"
    /\ results' = Append(results, row_result)
    /\ LET raised == print_evaluation_scores(row_result)
       IN  IF raised = "none"
           THEN pc' = "for" /\ UNCHANGED error
           ELSE /\ error' = [exc |-> raised, at |-> "print_evaluation_scores"]
                /\ pc' = IF IsException(raised) THEN "except" ELSE "halted"
    /\ UNCHANGED <<df, index, row, row_result, complete_results, truncVars,
                   otherVars>>

\* lines 167-173: the handler appends a fresh result for the row
HandleError ==
    /\ pc = "except"
    /\ row_result' = initialize_result_dict(row.publication_external_id)
    /\ results' = Append(results, row_result')
    /\ pc' = "for"
    /\ UNCHANGED <<df, index, row, error, complete_results, truncVars,
                   otherVars>>

\* df.merge(results_df, on='publication_external_id', how='left'): for each
\* row of df, in order, one row for every entry of the results with its id,
\* in order; one row with no entry if there is none
RECURSIVE merge(_, _, _)
merge(left, right, i) ==
    IF i > Len(left) THEN <<>>
    ELSE LET matches ==
                 SelectSeq([j \in DOMAIN right |-> j],
                           LAMBDA j : right[j].publication_external_id
                                      = left[i])
             joined ==
                 IF matches = <<>> THEN <<[left |-> i, right |-> 0]>>
                 ELSE [k \in DOMAIN matches |->
                          [left |-> i, right |-> matches[k]]]
         IN  joined \o merge(left, right, i + 1)

\* src/src/utils.py lines 113-135, called at line 176 when the loop ends
save_evaluation_results ==
    /\ pc = "for"
    /\ index = Len(df)
    /\ complete_results' = merge(df, results, 1)
    /\ pc' = "saved"
    /\ UNCHANGED <<df, index, row, row_result, results, error, truncVars,
                   otherVars>>

DriverNext ==
    \/ Iterate
    \/ EvalTitle
    \/ EvalTldr
    \/ EvalReferences
    \/ EvalTags
    \/ AppendResult
    \/ HandleError
    \/ save_evaluation_results

SpecDriver == DriverInit /\ [][DriverNext]_vars

----------------------------------------------------------------------------
(* Claims about the evaluation driver *)

\* the exception an await of the row let escape past `except Exception`
Halted == pc = "halted"

\* C21: an exception raised while scoring one row never halts the run, and
\* after the loop the results list holds exactly one entry per input row,
\* in row order, each carrying that row's publication_external_id
C21_RowFailureNeverHalts ==
    /\ ~Halted
    /\ pc = "saved" =>
          /\ Len(results) = Len(df)
          /\ \A i \in DOMAIN df : results[i].publication_external_id = df[i]

\* the loop is between two rows and the last row was processed without an
\* exception
RowProcessed == pc = "for" /\ index > 0 /\ error.exc = "none"

\* a float in [0,1]
InUnitInterval(score) ==
    score # Null /\ LessEq(Zero, score) /\ LessEq(score, One)

\* the entry is null if a cell is missing and the float the call returned
\* otherwise
JaccardEntry(entry, truth, generated, call) ==
    IF ~notna(truth) \/ ~notna(generated)
    THEN entry = Null
    ELSE /\ call.raised = "none"
         /\ entry = call.score
         /\ InUnitInterval(entry)

\* C22: for a row processed without an exception, each Jaccard entry of its
\* result is null exactly when the truth or the generated value of that
\* attribute is missing in the row, and is otherwise a float in [0,1]
\* returned by the corresponding scorer
C22_JaccardEntries ==
    RowProcessed =>
        /\ Len(results) = index
        /\ JaccardEntry(results[index].references_jaccard_similarity,
                        row.references_truth, row.references_generated,
                        ReferencesJaccard(row))
        /\ JaccardEntry(results[index].tags_jaccard_similarity,
                        row.tags_truth, row.tags_generated, TagsJaccard(row))

\* a processed row with one attribute scored and the other one missing
C22_Witness ==
    /\ RowProcessed
    /\ results[index].references_jaccard_similarity # Null
    /\ ~notna(row.tags_generated)
    /\ notna(row.tags_truth)
    /\ results[index].tags_jaccard_similarity = Null

\* C23: the complete-results table (the dataset left-merged with the
\* results on publication_external_id) has exactly one row per evaluated
\* item, for every dataset, one with a repeated id included
C23_OneRowPerItem ==
    pc = "saved" => Len(complete_results) = Len(df)

\* an exception was raised while the row under evaluation was evaluated
RowFailed == index > 0 /\ error.exc # "none"

AllNull(entry) == \A i \in DOMAIN Metrics : entry[Metrics[i]] = Null

\* C26: when an exception is raised while a row is evaluated, the entry
\* appended for that row has every metric null, the metrics computed before
\* the exception included; no partially filled result is appended for a
\* failed row and no row is appended twice
C26_FailedRowAllNull ==
    /\ Len(results) <= index
    /\ RowFailed =>
          /\ pc = "for" => Len(results) = index
          /\ Len(results) = index =>
                /\ AllNull(results[index])
                /\ results[index].publication_external_id
                   = row.publication_external_id

\* the last await of a row raised after seven metrics had been computed,
\* and the handler has appended the row's entry
C26_Witness ==
    /\ pc = "for"
    /\ error = [exc |-> "ValueError", at |-> "tags_faithfulness"]
    /\ notna(row.title_truth)
    /\ notna(row.references_truth) /\ notna(row.references_generated)
    /\ Len(results) = index
    /\ AllNull(results[index])

----------------------------------------------------------------------------
(* The LLM-judged metrics: ResponseConcisenessMetric (src/custom_metrics.py) *)
(* and ContentCoherenceMetric (src/code/metrics/coherence.py)               *)

\* "Not provided"
NotProvided ==
    Str(<<"N", "o", "t", " ", "p", "r", "o", "v", "i", "d", "e", "d">>)

\* a model instance of the fields, if each of them is a str
Validated(fields) ==
    IF \A f \in DOMAIN fields : fields[f].kind = "str"
    THEN Ok(fields)
    ELSE Raise("ValidationError")

\* what <prompt>.generate(data, llm, callbacks) does: it returns an output
\* model, whose score the model class bounds by 0 and 1, or raises
GenerateOutcomes ==
    {Ok(score) : score \in {Zero, Frac(1, 4), One}} \cup {Raise("ValueError")}

\* except Exception as e: ... return 0.5
ExceptReturnHalf(e) ==
    IF IsException(e) THEN Returned(Frac(1, 2)) ELSE Escaped(e)

\* the try statement around generate: the call made and what the
\* coroutine does
Generate(prompt_input, generate) ==
    [outcome |-> IF generate.exc = "none" THEN Returned(generate.val)
                 ELSE ExceptReturnHalf(generate.exc),
     calls |-> <<[data |-> prompt_input, response |-> generate]>>]

\* the reference handed on as it is
reference_unchanged(reference) == reference

\* sample.reference if sample.reference else "Not provided"
reference_or_default(reference) ==
    IF Falsy(reference) THEN NotProvided ELSE reference

\* ConcisenessInput(user_input=..., response=..., reference=...)
ConcisenessInput(smp) ==
    Validated([user_input |-> smp.user_input,
               response |-> smp.response,
               reference |-> reference_or_default(smp.reference)])

Conciseness_single_turn_ascore(smp, generate) ==
    LET prompt_input == ConcisenessInput(smp)
    IN  IF prompt_input.exc # "none"
        THEN [outcome |-> Escaped(prompt_input.exc), calls |-> <<>>]
        ELSE Generate(prompt_input.val, generate)

\* the samples: SingleTurnSample declares each field Optional[str]
ConcisenessSamples ==
    [user_input : {Str(<<"a">>)},
     response : {Str(<<"a">>), Str(<<"b">>), PyNone},
     reference : {PyNone, Str(<<>>), Str(<<"a">>), NotProvided}]

CoherenceColumns ==
    {"context", "title_generated", "tldr_generated", "references_generated",
     "tags_generated"}

\* CoherenceInput(context=..., title_generated=..., ...) of the attributes
\* read with getattr(sample, column, '')
CoherenceInput(smp) ==
    Validated([column \in CoherenceColumns |-> GetAttr(smp, column)])

\* a test that takes a missing context only
NoContext_none(smp) == GetAttr(smp, "context").kind = "none"

\* not context
NoContext(smp) == Falsy(GetAttr(smp, "context"))

Coherence_single_turn_ascore(smp, generate) ==
    IF NoContext(smp) THEN [outcome |-> Returned(Zero), calls |-> <<>>]
    ELSE LET prompt_input == CoherenceInput(smp)
         IN  IF prompt_input.exc # "none"
             THEN [outcome |-> Escaped(prompt_input.exc), calls |-> <<>>]
             ELSE Generate(prompt_input.val, generate)

\* the contexts of a sample: None, "" or a text
Contexts == {PyNone, Str(<<>>), Str(<<"c", ".">>)}

\* a sample that has the attributes of `columns`
CoherenceSample(columns, ctx) ==
    [column \in columns |->
        IF column = "context" THEN ctx ELSE Str(<<"a">>)]

LLMInit ==
    /\ scorer \in {"conciseness", "coherence"}
    /\ config = <<>>
    /\ sample = PublicationSample(<<>>)
    /\ outcome = NoCall
    /\ calls = <<>>
    /\ TruncateIdle
    /\ NoTasks
    /\ DriverIdle
    /\ pc = "idle"

ScoreConciseness ==
    /\ pc = "idle"
    /\ scorer = "conciseness"
    /\ \E smp \in ConcisenessSamples, generate \in GenerateOutcomes :
          LET call == Conciseness_single_turn_ascore(smp, generate)
          IN  /\ sample' = smp
              /\ outcome' = call.outcome
              /\ calls' = call.calls
    /\ pc' = "done"
    /\ UNCHANGED <<scorer, config, truncVars, taskVars, driverVars>>

ScoreCoherence ==
    /\ pc = "idle"
    /\ scorer = "coherence"
    /\ \E columns \in SUBSET CoherenceColumns, ctx \in Contexts,
          generate \in GenerateOutcomes :
          LET smp == CoherenceSample(columns, ctx)
              call == Coherence_single_turn_ascore(smp, generate)
          IN  /\ sample' = smp
              /\ outcome' = call.outcome
              /\ calls' = call.calls
    /\ pc' = "done"
    /\ UNCHANGED <<scorer, config, truncVars, taskVars, driverVars>>

\* the next call on the instance
NextLLMSample ==
    /\ pc = "done"
    /\ pc' = "idle"
    /\ sample' = PublicationSample(<<>>)
    /\ outcome' = NoCall
    /\ calls' = <<>>
    /\ UNCHANGED <<scorer, config, truncVars, taskVars, driverVars>>

LLMNext == ScoreConciseness \/ ScoreCoherence \/ NextLLMSample

SpecLLM == LLMInit /\ [][LLMNext]_vars

----------------------------------------------------------------------------
(* Claims about the LLM-judged metrics *)

HasNoContext ==
    \/ "context" \notin DOMAIN sample
    \/ sample.context \in {PyNone, Str(<<>>)}

\* C25: ContentCoherenceMetric._single_turn_ascore returns 0.0 without
\* invoking the LLM when the sample has no or an empty context; otherwise it
\* invokes the LLM once and returns the LLM's score on success and 0.5 when
\* the generation raises an exception
C25_CoherenceScore ==
    (pc = "done" /\ scorer = "coherence") =>
        IF HasNoContext
        THEN outcome = Returned(Zero) /\ calls = <<>>
        ELSE /\ Len(calls) = 1
             /\ calls[1].response.exc = "none" =>
                   outcome = Returned(calls[1].response.val)
             /\ calls[1].response.exc # "none" =>
                   outcome = Returned(Frac(1, 2))

\* a generation that raised for a sample with a context
C25_Witness ==
    /\ pc = "done" /\ scorer = "coherence"
    /\ ~HasNoContext
    /\ Len(calls) = 1
    /\ calls[1].response = Raise("ValueError")
    /\ outcome = Returned(Frac(1, 2))

----------------------------------------------------------------------------
(* More claims about truncate_context *)

\* C27: truncate_context is idempotent: for every text and every
\* max_tokens, truncating the result again returns the result
C27_Idempotent ==
    pc = "again" => context = Ok(raw_context.chars)

\* C27, for a budget that is not negative: truncating the result again
\* returns the result, in the unchanged case, the sentence-boundary case
\* and the ellipsis case alike
C27_IdempotentWithinBudget ==
    (pc = "again" /\ max_tokens >= 0) => context = Ok(raw_context.chars)

\* the result of an ellipsis case, three characters over the budget, went
\* through the ellipsis case again and came back the same
C27_Witness ==
    /\ pc = "again"
    /\ max_tokens > 0
    /\ Len(raw_context.chars) = Budget + 3
    /\ context = Ok(raw_context.chars)

\* lines 66-67 of src/run_evals.py: the driver prints the truncation
\* warning
TruncationWarning(raw, ctx) == Len(raw) > Len(ctx)

\* C28: a text that truncate_context returns different from its input is
\* strictly shorter than the input, so that the driver's check
\* len(raw_context) > len(context) prints the warning for exactly the
\* contexts that were altered; stated for a positive max_tokens
C28_AlteredIsShorter ==
    (pc = "done" /\ raw_context.kind = "str" /\ max_tokens > 0
        /\ context.exc = "none")
    => /\ context.val # raw_context.chars
          => Len(context.val) < Len(raw_context.chars)
       /\ TruncationWarning(raw_context.chars, context.val)
          <=> context.val # raw_context.chars

=============================================================================
